---------------------------- MODULE Spec2Model ----------------------------
(***************************************************************************)
(* A model of the numeric core of the Valle repository:                    *)
(*   valle/models/utils.py : build_pad_mask, build_attn_mask,              *)
(*                           topk_sampling, get_best_beam                  *)
(*   valle/collate.py      : ValleARCollate.__call__, collate_list         *)
(*                                                                         *)
(* Every function is pure.  A behaviour draws the arguments of one call in *)
(* its initial state (pc = "ready") and the call's action computes the     *)
(* outcome (pc = "done"): either a returned value or a raised exception.   *)
(* Tensors are sequences (1-based); a 2-D tensor carries its shape, since  *)
(* a tensor with zero rows still has a width.                              *)
(***************************************************************************)
EXTENDS Integers, Sequences, FiniteSets

VARIABLES pc, fn, inp, out

vars == <<pc, fn, inp, out>>

(***************************************************************************)
(* Bounds of the model.                                                    *)
(***************************************************************************)
MaxBatch == 3          \* rows of a length vector
MaxLen == 4            \* largest entry of a length vector
MaxX == 5              \* largest x_len (text length)
MaxY == 5              \* largest y_len (audio length)

Lengths == (-1) .. MaxLen

NoValue == [status |-> "pending"]

Returned(v) == [status |-> "returned", value |-> v]

Raised(e) == [status |-> "raised", error |-> e]

(***************************************************************************)
(* Tensor helpers (torch / einops primitives used by the functions).       *)
(***************************************************************************)
RECURSIVE SeqMax(_)
SeqMax(s) ==
    IF Len(s) = 1 THEN s[1]
    ELSE LET m == SeqMax(Tail(s)) IN IF s[1] >= m THEN s[1] ELSE m

\* torch.arange(n): the vector 0, 1, ..., n-1
Arange(n) == [k \in 1..n |-> k - 1]

\* einops.repeat(v, 'b -> l b', l=l): l copies of the vector v as rows
Repeat(v, l) == [shape |-> <<l, Len(v)>>, data |-> [i \in 1..l |-> v]]

\* grid >= rearrange(lens, 'b -> b 1'): row i is compared with lens[i]
BroadcastGe(grid, lens) ==
    [shape |-> grid.shape,
     data  |-> [i \in 1..grid.shape[1] |->
                  [j \in 1..grid.shape[2] |-> grid.data[i][j] >= lens[i]]]]

\* torch.zeros((r, c), dtype=bool) and torch.ones((r, c), dtype=bool)
Zeros(r, c) == [shape |-> <<r, c>>, data |-> [i \in 1..r |-> [j \in 1..c |-> FALSE]]]

Ones(r, c) == [shape |-> <<r, c>>, data |-> [i \in 1..r |-> [j \in 1..c |-> TRUE]]]

\* torch.triu(m, diagonal=d): keeps the entries with column - row >= d
Triu(m, d) ==
    [shape |-> m.shape,
     data  |-> [i \in 1..m.shape[1] |->
                  [j \in 1..m.shape[2] |-> m.data[i][j] /\ (j - i >= d)]]]

\* torch.cat((a, b), dim=1): rows side by side
CatCols(a, b) ==
    [shape |-> <<a.shape[1], a.shape[2] + b.shape[2]>>,
     data  |-> [i \in 1..a.shape[1] |->
                  [j \in 1..(a.shape[2] + b.shape[2]) |->
                     IF j <= a.shape[2] THEN a.data[i][j]
                     ELSE b.data[i][j - a.shape[2]]]]]

\* torch.cat((a, b), dim=0): the rows of a, then the rows of b
CatRows(a, b) ==
    [shape |-> <<a.shape[1] + b.shape[1], a.shape[2]>>,
     data  |-> [i \in 1..(a.shape[1] + b.shape[1]) |->
                  IF i <= a.shape[1] THEN a.data[i]
                  ELSE b.data[i - a.shape[1]]]]

(***************************************************************************)
(* build_pad_mask(lens, device)                                            *)
(***************************************************************************)
\* Mutant: the comparison is strict (>) instead of >=.
build_pad_mask_strict(lens) ==
    IF Len(lens) = 0 THEN Raised("RuntimeError")
    ELSE LET max_len == SeqMax(lens) IN
         IF max_len < 0 THEN Raised("RuntimeError")
         ELSE LET grid == Repeat(Arange(max_len), Len(lens)) IN
              Returned([shape |-> grid.shape,
                        data  |-> [i \in 1..grid.shape[1] |->
                                     [j \in 1..grid.shape[2] |->
                                        grid.data[i][j] > lens[i]]]])

build_pad_mask(lens) ==
    IF Len(lens) = 0
    THEN Raised("RuntimeError")            \* lens.max() of an empty tensor
    ELSE LET max_len == SeqMax(lens) IN
         IF max_len < 0
         THEN Raised("RuntimeError")       \* torch.arange of a negative end
         ELSE Returned(BroadcastGe(Repeat(Arange(max_len), Len(lens)), lens))

(***************************************************************************)
(* build_attn_mask(x_len, y_len, device)                                   *)
(***************************************************************************)
\* Mutant: the causal block keeps its diagonal (diagonal=0 instead of 1).
build_attn_mask_diag0(x_len, y_len) ==
    CatRows(CatCols(Zeros(x_len, x_len), Ones(x_len, y_len)),
            CatCols(Zeros(y_len, x_len), Triu(Ones(y_len, y_len), 0)))

\* Mutant: the causal block is anchored at the last audio position
\* (diagonal = 1 relative to the end), so it shifts as y_len grows.
build_attn_mask_shift(x_len, y_len) ==
    CatRows(CatCols(Zeros(x_len, x_len), Ones(x_len, y_len)),
            CatCols(Zeros(y_len, x_len), Triu(Ones(y_len, y_len), 2 - y_len)))

build_attn_mask(x_len, y_len) ==
    LET x_mask == CatCols(Zeros(x_len, x_len), Ones(x_len, y_len))
        y_mask == CatCols(Zeros(y_len, x_len), Triu(Ones(y_len, y_len), 1))
    IN  CatRows(x_mask, y_mask)

(***************************************************************************)
(* The mask builder as a state machine.                                    *)
(***************************************************************************)
LengthVectors == UNION {[1..n -> Lengths] : n \in 0..MaxBatch}

InitPad ==
    /\ pc = "ready"
    /\ fn = "build_pad_mask"
    /\ inp \in {[lens |-> l] : l \in LengthVectors}
    /\ out = NoValue

InitAttn ==
    /\ pc = "ready"
    /\ fn = "build_attn_mask"
    /\ inp \in {[x_len |-> x, y_len |-> y] : x \in 0..MaxX, y \in 0..MaxY}
    /\ out = NoValue

CallBuildPadMask ==
    /\ pc = "ready"
    /\ fn = "build_pad_mask"
    /\ out' = build_pad_mask(inp.lens)
    /\ pc' = "done"
    /\ UNCHANGED <<fn, inp>>

CallBuildAttnMask ==
    /\ pc = "ready"
    /\ fn = "build_attn_mask"
    /\ out' = Returned(build_attn_mask(inp.x_len, inp.y_len))
    /\ pc' = "done"
    /\ UNCHANGED <<fn, inp>>

\* One autoregressive decode step: one more audio position, same text; the
\* mask is rebuilt for the longer sequence.
DecodeStep ==
    /\ pc \in {"done", "stepped"}
    /\ fn = "build_attn_mask"
    /\ inp.y_len < MaxY
    /\ inp' = [inp EXCEPT !.y_len = @ + 1]
    /\ out' = Returned(build_attn_mask(inp.x_len, inp.y_len + 1))
    /\ pc' = "stepped"
    /\ UNCHANGED fn

Init == InitPad \/ InitAttn

Next == CallBuildPadMask \/ CallBuildAttnMask \/ DecodeStep

Spec == Init /\ [][Next]_vars

(***************************************************************************)
(* Properties of the mask builder (checked under Spec).                    *)
(***************************************************************************)
PadCallDone == pc = "done" /\ fn = "build_pad_mask"

PositiveLengths(lens) == Len(lens) > 0 /\ \A i \in 1..Len(lens) : lens[i] > 0

\* C1: for every non-empty vector of positive lengths build_pad_mask returns
\* a boolean grid of shape (len(L), max(L)) whose entry (i, j), j counted
\* from 0, is true exactly when j >= L[i]; equal lengths give an all-false
\* grid.
PadMaskCorrect ==
    (PadCallDone /\ PositiveLengths(inp.lens)) =>
        /\ out.status = "returned"
        /\ \E m \in {inp.lens[i] : i \in 1..Len(inp.lens)} :
              /\ \A i \in 1..Len(inp.lens) : inp.lens[i] <= m
              /\ out.value.shape = <<Len(inp.lens), m>>
              /\ Len(out.value.data) = Len(inp.lens)
              /\ \A i \in 1..Len(inp.lens) :
                    /\ Len(out.value.data[i]) = m
                    /\ \A j \in 0..(m - 1) :
                          out.value.data[i][j + 1] <=> (j >= inp.lens[i])
        /\ (\A i \in 1..Len(inp.lens) : inp.lens[i] = inp.lens[1]) =>
              \A i \in 1..Len(inp.lens) :
                 \A j \in 1..Len(out.value.data[i]) : ~out.value.data[i][j]

\* Witness of C1: a batch of unequal positive lengths whose mask has both
\* valid and masked entries.
PadMaskWitness ==
    /\ PadCallDone
    /\ inp.lens = <<4, 3, 2>>
    /\ out.status = "returned"
    /\ out.value.data = <<<<FALSE, FALSE, FALSE, FALSE>>,
                          <<FALSE, FALSE, FALSE, TRUE>>,
                          <<FALSE, FALSE, TRUE, TRUE>>>>

\* C7: build_pad_mask raises, returning no mask, whenever the length vector
\* is empty or holds a value <= 0; it never returns a zero-width grid or a
\* grid with an all-true row.
PadMaskRejectsInvalid ==
    PadCallDone =>
        /\ ~PositiveLengths(inp.lens) => out.status = "raised"
        /\ out.status = "returned" =>
              /\ out.value.shape[2] > 0
              /\ \A i \in 1..out.value.shape[1] :
                    \E j \in 1..out.value.shape[2] : ~out.value.data[i][j]

AttnCallDone == pc \in {"done", "stepped"} /\ fn = "build_attn_mask"

\* Entry (r, c) of a 2-D tensor, r and c counted from 0 as in the source.
At(m, r, c) == m.data[r + 1][c + 1]

\* C2: for all x_len, y_len >= 0 build_attn_mask returns a square grid of
\* side x_len + y_len with: columns below x_len all false; rows below x_len
\* true in the columns from x_len on; in the audio block, true exactly when
\* (c - x_len) > (r - x_len).
AttnMaskBlocks ==
    AttnCallDone =>
        LET x == inp.x_len
            y == inp.y_len
            m == out.value
        IN  /\ out.status = "returned"
            /\ m.shape = <<x + y, x + y>>
            /\ Len(m.data) = x + y
            /\ \A r \in 0..(x + y - 1) :
                  /\ Len(m.data[r + 1]) = x + y
                  /\ \A c \in 0..(x + y - 1) :
                        At(m, r, c) <=>
                           IF c < x THEN FALSE
                           ELSE IF r < x THEN TRUE
                           ELSE (c - x) > (r - x)
            /\ (y = 0) => \A r, c \in 0..(x - 1) : ~At(m, r, c)
            /\ (x = 0) => \A r, c \in 0..(y - 1) : At(m, r, c) <=> (c > r)

\* Witness of C2: the 10 x 10 mask of x_len = 5, y_len = 5 with the rows of
\* the repository's test.
AttnMaskWitness ==
    /\ AttnCallDone
    /\ inp = [x_len |-> 5, y_len |-> 5]
    /\ out.value.data[1] =
          <<FALSE, FALSE, FALSE, FALSE, FALSE, TRUE, TRUE, TRUE, TRUE, TRUE>>
    /\ out.value.data[6] =
          <<FALSE, FALSE, FALSE, FALSE, FALSE, FALSE, TRUE, TRUE, TRUE, TRUE>>
    /\ out.value.data[10] =
          <<FALSE, FALSE, FALSE, FALSE, FALSE, FALSE, FALSE, FALSE, FALSE, FALSE>>

\* The leading n x n block of a 2-D tensor.
Leading(m, n) ==
    [shape |-> <<n, n>>, data |-> [i \in 1..n |-> [j \in 1..n |-> m.data[i][j]]]]

\* C10: a decode step keeps x_len, grows y_len by one, and the new mask
\* restricted to the first x_len + y_len rows and columns is the old mask:
\* no attention edge decided at an earlier step changes at a later one.
AttnMaskPrefixStable ==
    [][(fn = "build_attn_mask" /\ pc' = "stepped") =>
          /\ inp'.x_len = inp.x_len
          /\ inp'.y_len = inp.y_len + 1
          /\ Leading(out'.value, inp.x_len + inp.y_len) = out.value]_vars

\* Witness of C10: a mask reached by decode steps, with text and several
\* audio positions.
AttnMaskStepWitness ==
    /\ pc = "stepped"
    /\ fn = "build_attn_mask"
    /\ inp.x_len >= 2
    /\ inp.y_len >= 3
    /\ At(out.value, inp.x_len, inp.x_len + 1)
    /\ ~At(out.value, inp.x_len + 1, inp.x_len + 1)

(***************************************************************************)
(* topk_sampling(logits, top_k, tok_p, temperature)                        *)
(*                                                                         *)
(* Logits are integer multiples of ln 2, written as the integer: softmax   *)
(* then gives the weight 2^k to the logit k, and probabilities are exact   *)
(* fractions weight / total.  A filtered logit (-inf) has weight 0.        *)
(* top_p is a fraction num / den.  The temperature is None (enabled =      *)
(* FALSE) or one of -1, 0, 1, for which the division is exact.             *)
(***************************************************************************)
VocabSize == 3         \* columns of the logits grid

BatchSizes == {1, 2}

LogitValues == {0, 1}

Finite(k) == [fin |-> TRUE, v |-> k]

NegInf == [fin |-> FALSE, v |-> 0]

\* a < b on logits that may be -inf
Less(a, b) == IF ~b.fin THEN FALSE ELSE IF ~a.fin THEN TRUE ELSE a.v < b.v

RECURSIVE Pow2(_)
Pow2(n) == IF n <= 0 THEN 1 ELSE 2 * Pow2(n - 1)

RECURSIVE SumSeq(_)
SumSeq(s) == IF Len(s) = 0 THEN 0 ELSE s[1] + SumSeq(Tail(s))

\* exp(logit - least finite logit) for each entry: the softmax numerators
SoftmaxWeights(row) ==
    LET fins == {row[i].v : i \in {j \in 1..Len(row) : row[j].fin}}
        base == IF fins = {} THEN 0 ELSE CHOOSE b \in fins : \A c \in fins : b <= c
    IN  [i \in 1..Len(row) |-> IF row[i].fin THEN Pow2(row[i].v - base) ELSE 0]

\* torch.topk(scores, k)[0][..., -1]: the k-th largest value of the row
KthLargest(row, k) ==
    CHOOSE e \in {row[i] : i \in 1..Len(row)} :
        /\ Cardinality({i \in 1..Len(row) : Less(e, row[i])}) < k
        /\ Cardinality({i \in 1..Len(row) : ~Less(row[i], e)}) >= k

\* transformers TopKLogitsWarper: every score below the k-th largest is set
\* to -inf (scores equal to it are all kept)
TopKLogitsWarper(row, top_k) ==
    LET k   == IF top_k < Len(row) THEN top_k ELSE Len(row)
        kth == KthLargest(row, k)
    IN  [i \in 1..Len(row) |-> IF Less(row[i], kth) THEN NegInf ELSE row[i]]

\* the orders torch.sort(scores, descending=False) may return (the order of
\* equal scores is not specified)
AscendingOrders(row) ==
    {o \in [1..Len(row) -> 1..Len(row)] :
        /\ \A a, b \in 1..Len(row) : a # b => o[a] # o[b]
        /\ \A a, b \in 1..Len(row) : a < b => ~Less(row[o[b]], row[o[a]])}

\* transformers TopPLogitsWarper under one sort order: in ascending order,
\* the tokens whose cumulative probability is <= 1 - top_p are set to -inf.
\* The releases differ on the last (largest) token: some always keep it
\* (keep_last), some only when min_tokens_to_keep > 1; that matters for
\* top_p = 0 alone, where the last cumulative probability, 1, is <= 1 - 0.
TopPLogitsWarper(row, top_p, order, keep_last) ==
    LET w      == SoftmaxWeights(row)
        total  == SumSeq(w)
        cum(q) == SumSeq([r \in 1..q |-> w[order[r]]])
        remove(q) == /\ ~(keep_last /\ q = Len(row))
                     /\ cum(q) * top_p.den <= (top_p.den - top_p.num) * total
    IN  [i \in 1..Len(row) |->
           IF \E q \in 1..Len(row) : order[q] = i /\ remove(q)
           THEN NegInf ELSE row[i]]

\* transformers top_k_top_p_filtering: top-k only when top_k > 0, top-p only
\* when 0 <= top_p <= 1; the set of rows it may return
top_k_top_p_filtering(row, top_k, top_p) ==
    LET a == IF top_k > 0 THEN TopKLogitsWarper(row, top_k) ELSE row
    IN  IF 0 <= top_p.num /\ top_p.num <= top_p.den
        THEN {TopPLogitsWarper(a, top_p, o, k) : o \in AscendingOrders(a), k \in BOOLEAN}
        ELSE {a}

\* what one row can yield: a token drawn by torch.multinomial from the
\* softmax of the filtered row (any token of non-zero probability), the
\* log-probability gathered for it (as the fraction it is the log of), and
\* the distribution it was drawn from
SampleRow(filtered) ==
    LET w == SoftmaxWeights(filtered)
    IN  {[token |-> i - 1, logprob_of |-> <<w[i], SumSeq(w)>>, probs |-> w] :
            i \in {j \in 1..Len(w) : w[j] > 0}}

\* logits / temperature for a temperature of 1 or -1
Scale(row, t) == [i \in 1..Len(row) |-> Finite(row[i] * t)]

\* every way of taking one outcome per row
RECURSIVE PerRow(_)
PerRow(sets) ==
    IF Len(sets) = 0 THEN {<<>>}
    ELSE {<<h>> \o t : h \in sets[1], t \in PerRow(Tail(sets))}

\* F.softmax of a row without a finite logit is nan
NanRow(filtered) == SumSeq(SoftmaxWeights(filtered)) = 0

\* sampled_token and current_logprobs for one filtered grid:
\* torch.multinomial rejects a distribution that holds nan
SampleGrid(filtered) ==
    IF \E b \in 1..Len(filtered) : NanRow(filtered[b])
    THEN {Raised("RuntimeError")}
    ELSE {Returned(s) : s \in PerRow([b \in 1..Len(filtered) |-> SampleRow(filtered[b])])}

\* Mutant: the token is drawn from the unfiltered logits.
topk_sampling_unfiltered(logits, top_k, tok_p, temperature) ==
    IF temperature.enabled /\ temperature.t = 0
    THEN {Raised("RuntimeError")}
    ELSE LET t == IF temperature.enabled THEN temperature.t ELSE 1
         IN  SampleGrid([b \in 1..Len(logits) |-> Scale(logits[b], t)])

\* The set of outcomes of one call.
topk_sampling(logits, top_k, tok_p, temperature) ==
    IF temperature.enabled /\ temperature.t = 0
    THEN \* logits / 0 is +-inf or nan in every entry, the softmax is nan
         \* and torch.multinomial rejects it
         {Raised("RuntimeError")}
    ELSE LET t    == IF temperature.enabled THEN temperature.t ELSE 1
             rows == [b \in 1..Len(logits) |->
                        top_k_top_p_filtering(Scale(logits[b], t), top_k, tok_p)]
         IN  UNION {SampleGrid(filtered) : filtered \in PerRow(rows)}

(***************************************************************************)
(* The token sampler as a state machine.                                   *)
(***************************************************************************)
TopKs == {-1, 0, 1, 2, 50}

TopPs == {[num |-> n, den |-> 4] : n \in {-1, 0, 2, 4, 5}}

Temperatures ==
    {[enabled |-> FALSE, t |-> 1]} \cup {[enabled |-> TRUE, t |-> v] : v \in {-1, 0, 1}}

LogitGrids == UNION {[1..b -> [1..VocabSize -> LogitValues]] : b \in BatchSizes}

InitSampler ==
    /\ pc = "ready"
    /\ fn = "topk_sampling"
    /\ inp \in [logits : LogitGrids, top_k : TopKs, tok_p : TopPs,
                temperature : Temperatures]
    /\ out = NoValue

CallTopkSampling ==
    /\ pc = "ready"
    /\ fn = "topk_sampling"
    /\ out' \in topk_sampling(inp.logits, inp.top_k, inp.tok_p, inp.temperature)
    /\ pc' = "done"
    /\ UNCHANGED <<fn, inp>>

SamplerSpec == InitSampler /\ [][CallTopkSampling]_vars

(***************************************************************************)
(* Properties of the token sampler (checked under SamplerSpec).            *)
(***************************************************************************)
SamplerCallDone == pc = "done" /\ fn = "topk_sampling"

InvalidSamplerConfig ==
    \/ inp.top_k <= 0
    \/ inp.tok_p.num <= 0
    \/ inp.tok_p.num > inp.tok_p.den
    \/ inp.temperature.enabled /\ inp.temperature.t <= 0

\* C6: topk_sampling raises, returning no token, whenever top_k <= 0, or
\* tok_p lies outside (0, 1], or an enabled temperature is zero or negative.
SamplerRejectsInvalid ==
    (SamplerCallDone /\ InvalidSamplerConfig) => out.status = "raised"

GreedyConfig ==
    /\ inp.top_k = 1
    /\ inp.tok_p.num = inp.tok_p.den
    /\ inp.temperature.enabled
    /\ inp.temperature.t = 1

\* the indices (from 0) at which row b of the logits has its highest value
HighestIndices(b) ==
    {i - 1 : i \in {j \in 1..Len(inp.logits[b]) :
                      \A k \in 1..Len(inp.logits[b]) :
                         inp.logits[b][k] <= inp.logits[b][j]}}

\* the tokens (from 0) of non-zero probability in row b of the outcome
Support(b) ==
    {i - 1 : i \in {j \in 1..Len(out.value[b].probs) : out.value[b].probs[j] > 0}}

\* C9 as stated: with top_k = 1, tok_p = 1 and temperature = 1 the call
\* returns for every row an index of the row's highest logit, and the
\* tokens of non-zero probability in each row are exactly one index.
SamplerGreedySingle ==
    (SamplerCallDone /\ GreedyConfig) =>
        /\ out.status = "returned"
        /\ \A b \in 1..Len(inp.logits) :
              /\ out.value[b].token \in HighestIndices(b)
              /\ Support(b) = {out.value[b].token}

\* C9 as amended: with top_k = 1, tok_p = 1 and temperature = 1 the call
\* returns for every row an index of the row's highest logit, and the
\* tokens of non-zero probability in each row are exactly the indices at
\* which the row attains its highest logit (one index when it is unique).
SamplerGreedyHighest ==
    (SamplerCallDone /\ GreedyConfig) =>
        /\ out.status = "returned"
        /\ Len(out.value) = Len(inp.logits)
        /\ \A b \in 1..Len(inp.logits) :
              /\ out.value[b].token \in HighestIndices(b)
              /\ Support(b) = HighestIndices(b)

\* Witness of C9: a greedy call on two rows, one with a unique highest
\* logit and one with a tie, where the later tied index was drawn.
SamplerGreedyWitness ==
    /\ SamplerCallDone
    /\ GreedyConfig
    /\ inp.logits = <<<<0, 1, 0>>, <<1, 0, 1>>>>
    /\ out.status = "returned"
    /\ out.value[1].token = 1
    /\ out.value[2].token = 2

(***************************************************************************)
(* get_best_beam(x, sum_logprobs, stop_token, length_penalty)              *)
(*                                                                         *)
(* Cumulative log-probabilities and the length penalty are integers, so a  *)
(* score is an exact fraction num / den with den > 0, or one of the IEEE   *)
(* values a division by zero produces: +inf, -inf, nan.                    *)
(***************************************************************************)
MaxSteps == 3          \* columns of the candidate grid

BeamCounts == {1, 2}

Tokens == {0, 1, 2}

StopTokens == {0}

LogProbs == {-2, -1, 0, 1}

Penalties == {0, 1, 2}

\* b ** e for e >= 0 (0 ** 0 is 1, as in torch)
RECURSIVE IntPow(_, _)
IntPow(b, e) == IF e = 0 THEN 1 ELSE b * IntPow(b, e - 1)

\* torch.sum(row != stop_token): the number of entries that are not the stop
CountNonStop(row, stop_token) ==
    Cardinality({t \in 1..Len(row) : row[t] # stop_token})

\* floating-point num / den for den >= 0
FloatDiv(num, den) ==
    IF den > 0 THEN [kind |-> "fin", num |-> num, den |-> den]
    ELSE IF num > 0 THEN [kind |-> "+inf", num |-> 0, den |-> 1]
    ELSE IF num < 0 THEN [kind |-> "-inf", num |-> 0, den |-> 1]
    ELSE [kind |-> "nan", num |-> 0, den |-> 1]

\* a > b on floating-point values (false when either is nan)
FloatGt(a, b) ==
    IF a.kind = "nan" \/ b.kind = "nan" THEN FALSE
    ELSE IF a.kind = "+inf" THEN b.kind # "+inf"
    ELSE IF a.kind = "-inf" THEN FALSE
    ELSE IF b.kind = "-inf" THEN TRUE
    ELSE IF b.kind = "+inf" THEN FALSE
    ELSE a.num * b.den > b.num * a.den

\* torch.argmax: the first index of the greatest value, a nan counting as
\* greater than every number
RECURSIVE ArgmaxFrom(_, _, _)
ArgmaxFrom(s, i, best) ==
    IF i > Len(s) THEN best
    ELSE LET better == IF s[i].kind = "nan" THEN s[best].kind # "nan"
                       ELSE FloatGt(s[i], s[best])
         IN  ArgmaxFrom(s, i + 1, IF better THEN i ELSE best)

Argmax(s) == ArgmaxFrom(s, 2, 1)

\* best_beam[best_beam != stop_token]
DropStop(row, stop_token) == SelectSeq(row, LAMBDA tok : tok # stop_token)

\* Mutant: the score is sum_logprobs / length, the length penalty ignored.
get_best_beam_nopenalty(x, sum_logprobs, stop_token, length_penalty) ==
    LET avg_logprobs == [b \in 1..Len(x) |->
                           FloatDiv(sum_logprobs[b], CountNonStop(x[b], stop_token))]
        best == Argmax(avg_logprobs)
    IN  Returned([beam |-> best, tokens |-> DropStop(x[best], stop_token)])

RECURSIVE DropTrailing(_, _)
DropTrailing(row, stop_token) ==
    IF Len(row) > 0 /\ row[Len(row)] = stop_token
    THEN DropTrailing(SubSeq(row, 1, Len(row) - 1), stop_token)
    ELSE row

\* Mutant: only the trailing stop tokens of the selected row are removed.
get_best_beam_trailing(x, sum_logprobs, stop_token, length_penalty) ==
    LET length == [b \in 1..Len(x) |-> CountNonStop(x[b], stop_token)]
        avg_logprobs == [b \in 1..Len(x) |->
                           FloatDiv(sum_logprobs[b], IntPow(length[b], length_penalty))]
        best == Argmax(avg_logprobs)
    IN  Returned([beam |-> best, tokens |-> DropTrailing(x[best], stop_token)])

\* The outcome of one call; beam is the row torch.argmax selected.
get_best_beam(x, sum_logprobs, stop_token, length_penalty) ==
    LET length == [b \in 1..Len(x) |-> CountNonStop(x[b], stop_token)]
        avg_logprobs == [b \in 1..Len(x) |->
                           FloatDiv(sum_logprobs[b], IntPow(length[b], length_penalty))]
        best == Argmax(avg_logprobs)
    IN  Returned([beam |-> best, tokens |-> DropStop(x[best], stop_token)])

(***************************************************************************)
(* The beam selector as a state machine.                                   *)
(***************************************************************************)
BeamInputs ==
    UNION {[x : [1..b -> [1..t -> Tokens]], sum_logprobs : [1..b -> LogProbs],
            stop_token : StopTokens, length_penalty : Penalties] :
              b \in BeamCounts, t \in 1..MaxSteps}

InitBeam ==
    /\ pc = "ready"
    /\ fn = "get_best_beam"
    /\ inp \in BeamInputs
    /\ out = NoValue

CallGetBestBeam ==
    /\ pc = "ready"
    /\ fn = "get_best_beam"
    /\ out' = get_best_beam(inp.x, inp.sum_logprobs, inp.stop_token, inp.length_penalty)
    /\ pc' = "done"
    /\ UNCHANGED <<fn, inp>>

BeamSpec == InitBeam /\ [][CallGetBestBeam]_vars

(***************************************************************************)
(* Properties of the beam selector (checked under BeamSpec).               *)
(***************************************************************************)
BeamCallDone == pc = "done" /\ fn = "get_best_beam"

\* the number of entries of row b that are not the stop token
NonStop(b) == Cardinality({t \in 1..Len(inp.x[b]) : inp.x[b][t] # inp.stop_token})

\* score(i) <= score(j) and score(i) < score(j) for rows with a non-stop
\* token, score(b) = sum_logprobs[b] / NonStop(b) ^ length_penalty
ScoreLeq(i, j) ==
    inp.sum_logprobs[i] * IntPow(NonStop(j), inp.length_penalty)
       <= inp.sum_logprobs[j] * IntPow(NonStop(i), inp.length_penalty)

ScoreLess(i, j) == ~ScoreLeq(j, i)

KeptPositions ==
    {t \in 1..Len(inp.x[out.value.beam]) : inp.x[out.value.beam][t] # inp.stop_token}

\* C4: whenever get_best_beam returns, the returned sequence holds no stop
\* token and is the selected row with every stop token removed, wherever it
\* stands, the other tokens in their original order; its length is the
\* row's number of non-stop entries.
BeamTrimmed ==
    (BeamCallDone /\ out.status = "returned") =>
        /\ \A k \in 1..Len(out.value.tokens) : out.value.tokens[k] # inp.stop_token
        /\ Len(out.value.tokens) = Cardinality(KeptPositions)
        /\ \A t \in KeptPositions :
              out.value.tokens[Cardinality({u \in KeptPositions : u <= t})]
                 = inp.x[out.value.beam][t]

\* Witness of C4: the selected row has a stop token between two different
\* tokens.
BeamTrimmedWitness ==
    /\ BeamCallDone
    /\ Len(inp.x) = 2
    /\ out.value.beam = 2
    /\ inp.x[2] = <<2, 0, 1>>
    /\ out.value.tokens = <<2, 1>>

\* C5: a row made up entirely of stop tokens is never selected when another
\* row has a non-stop token, whatever the log-probabilities and the length
\* penalty; when every row is entirely stop tokens the call raises.
BeamGuardsEmptyRows ==
    BeamCallDone =>
        /\ (\E b \in 1..Len(inp.x) : NonStop(b) > 0) =>
              (out.status = "returned" /\ NonStop(out.value.beam) > 0)
        /\ (\A b \in 1..Len(inp.x) : NonStop(b) = 0) => out.status = "raised"

(***************************************************************************)
(* ValleARCollate.__call__(batch) and collate_list(x_list)                 *)
(*                                                                         *)
(* Only the shapes of the tensors matter, so a tensor is its shape.  The   *)
(* codes of an example are 1-D (time) or 2-D (quantizers, time), as        *)
(* EncodecPip.encode returns them; its tokens are 1-D.                     *)
(***************************************************************************)
MaxItems == 2          \* examples in a batch
MaxCodeLen == 2        \* time steps of an example's codes
MaxTokenLen == 3       \* tokens of an example

Quantizers == {1, 2}

\* F.pad(t, (left, right)): pads the last dimension
PadLast(shape, left, right) ==
    [shape EXCEPT ![Len(shape)] = @ + left + right]

\* pad_sequence(x_list, batch_first=True): pads the first dimension to the
\* longest; every other dimension must agree
pad_sequence(x_list) ==
    IF \A i \in 1..Len(x_list) : Tail(x_list[i]) = Tail(x_list[1])
    THEN Returned(<<Len(x_list), SeqMax([i \in 1..Len(x_list) |-> x_list[i][1]])>>
                     \o Tail(x_list[1]))
    ELSE Raised("RuntimeError")

\* collate_list: (padded batch, lengths), the length of a tensor being its
\* first dimension
collate_list(x_list) ==
    LET x_lens == [i \in 1..Len(x_list) |-> x_list[i][1]]
        x      == pad_sequence(x_list)
    IN  IF x.status = "raised" THEN x
        ELSE Returned([x |-> x.value, x_lens |-> x_lens])

\* bool(t) of a boolean tensor, as `assert t` evaluates it
TensorBool(t) ==
    IF Len(t) = 1 THEN Returned(t[1]) ELSE Raised("RuntimeError")

ValleARCollate(batch) ==
    LET codes_list   == [i \in 1..Len(batch) |-> PadLast(batch[i].codes, 1, 0)]
        targets_list == [i \in 1..Len(batch) |-> PadLast(batch[i].codes, 0, 1)]
        tokens_list  == [i \in 1..Len(batch) |-> batch[i].tokens]
        codes        == collate_list(codes_list)
        targets      == collate_list(targets_list)
        tokens       == collate_list(tokens_list)
    IN  IF codes.status = "raised" THEN codes
        ELSE IF targets.status = "raised" THEN targets
        ELSE IF tokens.status = "raised" THEN tokens
        ELSE LET greater == [i \in 1..Len(batch) |->
                               codes.value.x_lens[i] > tokens.value.x_lens[i]]
                 holds   == TensorBool(greater)
             IN  IF holds.status = "raised" THEN holds
                 ELSE IF ~holds.value THEN Raised("AssertionError")
                 ELSE Returned([codes       |-> codes.value.x,
                                codes_lens  |-> codes.value.x_lens,
                                targets     |-> targets.value.x,
                                tokens      |-> tokens.value.x,
                                tokens_lens |-> tokens.value.x_lens])

(***************************************************************************)
(* The collation boundary as a state machine.                              *)
(***************************************************************************)
CodeShapes ==
    {<<t>> : t \in 0..MaxCodeLen} \cup {<<q, t>> : q \in Quantizers, t \in 0..MaxCodeLen}

Items == [codes : CodeShapes, tokens : {<<n>> : n \in 0..MaxTokenLen}]

InitCollate ==
    /\ pc = "ready"
    /\ fn = "ValleARCollate"
    /\ inp \in {[batch |-> b] : b \in UNION {[1..n -> Items] : n \in 1..MaxItems}}
    /\ out = NoValue

CallValleARCollate ==
    /\ pc = "ready"
    /\ fn = "ValleARCollate"
    /\ out' = ValleARCollate(inp.batch)
    /\ pc' = "done"
    /\ UNCHANGED <<fn, inp>>

CollateSpec == InitCollate /\ [][CallValleARCollate]_vars

(***************************************************************************)
(* Properties of the collation boundary (checked under CollateSpec).       *)
(***************************************************************************)
CollateCallDone == pc = "done" /\ fn = "ValleARCollate"

\* example i's code length after the BOS pad, and its token length
CodeLength(i) == inp.batch[i].codes[Len(inp.batch[i].codes)] + 1

TokenLength(i) == inp.batch[i].tokens[1]

\* C8: for batches of every size >= 1 the collation returns a batch only if
\* each example's code length (after the BOS pad) exceeds its token length,
\* raises the length-invariant violation if some example's does not, and
\* collates without error a batch in which every example's does.
CollateEnforcesPerExample ==
    CollateCallDone =>
        /\ out.status = "returned" =>
              \A i \in 1..Len(inp.batch) : CodeLength(i) > TokenLength(i)
        /\ (\E i \in 1..Len(inp.batch) : CodeLength(i) <= TokenLength(i)) =>
              (out.status = "raised" /\ out.error = "AssertionError")
        /\ (\A i \in 1..Len(inp.batch) : CodeLength(i) > TokenLength(i)) =>
              out.status = "returned"

=============================================================================
